---- MODULE Spec2Model ----
(***************************************************************************)
(* Model of processor/resourcedetectionprocessor/internal/                 *)
(* resourcedetection.go: the ResourceProviderFactory that builds an        *)
(* ordered detector list, and the ResourceProvider whose Get runs the      *)
(* detectors once (sync.Once) under a timeout and memoizes the result.     *)
(***************************************************************************)
EXTENDS Integers, Sequences, FiniteSets, TLC

(* ------------------------------ bounds --------------------------------- *)

\* number of goroutines that call Get on the one Provider
NCallers == 2

\* longest detector list handed to NewResourceProvider
MaxDetectors == 2

\* longest detectorTypes list handed to CreateResourceProvider
MaxTypes == 2

Callers == 1..NCallers

\* attribute keys and values a detector may report
Keys == {"a", "b"}
Vals == {1, 2}

\* DetectorType values; f.detectors (the registry) holds Registered only
Registered == {"X", "Y"}
DetectorTypes == Registered \cup {"bogus"}

\* DetectorConfig values a config source may return
Configs == {"cfgA", "cfgB"}

\* errors
NoErr == "nil"
DetectErrs == {"detect failed 1", "detect failed 2"}
Canceled == "context canceled"
DeadlineExceeded == "context deadline exceeded"
CtxErrs == {Canceled, DeadlineExceeded}
CtorErrs == {"ctor failed 1", "ctor failed 2"}

(* ------------------------------- state --------------------------------- *)

VARIABLES
  \* ResourceProviderFactory.CreateResourceProvider / getDetectors
  detectorTypes,    \* the requested types, in order (argument)
  detectorConfigs,  \* the config source: DetectorType -> DetectorConfig
  fpc,              \* position of the CreateResourceProvider call
  fidx,             \* index of the range loop of getDetectors
  detectors,        \* the local slice getDetectors appends to
  ctorCalls,        \* history: constructor invocations [type, cfg, result]
  createRet,        \* what CreateResourceProvider returned
  \* ResourceProvider
  p_detectors,      \* p.detectors
  detectedResource, \* p.detectedResource (pointer to resourceResult)
  onceDone,         \* p.once: done flag
  onceM,            \* p.once: mutex holder, 0 when free
  \* Get callers
  pc,               \* position of each caller
  cancelled,        \* whether the caller's inbound ctx has been cancelled
  runCtx,           \* the context.WithTimeout context of the run
  res,              \* local res of detectResource
  idx,              \* index of the range loop of detectResource
  beh,              \* how the Detect call in progress behaves
  ret,              \* what Get returned to each caller
  \* history
  invoked,          \* per detector position: number of Detect invocations
  runner,           \* the caller that executed detectResource first, 0 if none
  entered,          \* per caller: had the run settled when Get was entered
  runs,             \* number of times detectResource was started
  outs,             \* the resources the Detect calls returned, in call order
  outcome,          \* how the run ended: kind, the error Detect returned, position
  \* calls of the helper functions
  merge,            \* a MergeResource call: to, from, overrideTo, position
  flatten           \* an AttributesToMap call: am, the returned map, position

fvars == <<detectorTypes, detectorConfigs, fpc, fidx, detectors, ctorCalls, createRet>>
pvars == <<p_detectors, detectedResource, onceDone, onceM>>
gvars == <<pc, cancelled, runCtx, res, idx, beh, ret>>
hvars == <<invoked, runner, entered, runs, outs, outcome>>
uvars == <<merge, flatten>>
vars == <<fvars, pvars, gvars, hvars, uvars>>

(* ----------------------------- resources ------------------------------- *)

\* pdata.Resource: a key-unique attribute map
Resource == UNION {[D -> Vals] : D \in SUBSET Keys}

NewResource == [k \in {} |-> 0]

\* the resources a Detect call may return: no attribute, one key, and a
\* key that collides with the other output's together with a new key
DetectOutputs ==
  {NewResource, ("a" :> 1), ("a" :> 2 @@ "b" :> 2)}

IsEmptyResource(r) == Cardinality(DOMAIN r) = 0

\* Insert that overwrites a key already present
Insert_Overwrite(to, k, v) ==
  [x \in DOMAIN to \cup {k} |-> IF x = k THEN v ELSE to[x]]

\* AttributeMap.Insert: adds the key only when it is missing
Insert(to, k, v) ==
  IF k \in DOMAIN to THEN to
  ELSE [x \in DOMAIN to \cup {k} |-> IF x = k THEN v ELSE to[x]]

\* Upsert that leaves a key already present alone
Upsert_KeepExisting(to, k, v) ==
  IF k \in DOMAIN to THEN to
  ELSE [x \in DOMAIN to \cup {k} |-> IF x = k THEN v ELSE to[x]]

\* AttributeMap.Upsert: adds the key or overwrites its value
Upsert(to, k, v) ==
  [x \in DOMAIN to \cup {k} |-> IF x = k THEN v ELSE to[x]]

\* from.Attributes().Range(...) over the keys not yet visited
RECURSIVE RangeMerge(_, _, _, _)
RangeMerge(to, from, ks, overrideTo) ==
  IF ks = {} THEN to
  ELSE LET k == CHOOSE x \in ks : TRUE
       IN RangeMerge(IF overrideTo THEN Upsert(to, k, from[k])
                                   ELSE Insert(to, k, from[k]),
                     from, ks \ {k}, overrideTo)

\* overriding done by copying the source over the target
MergeResource_CopyOnOverride(to, from, overrideTo) ==
  IF overrideTo THEN from
  ELSE RangeMerge(to, from, DOMAIN from, overrideTo)

MergeResource(to, from, overrideTo) ==
  IF IsEmptyResource(from) THEN to
  ELSE RangeMerge(to, from, DOMAIN from, overrideTo)

\* resourceResult{}: the zero value; hasRes is FALSE while the resource
\* field still holds the zero pdata.Resource
ZeroResult == [alloc |-> TRUE, hasRes |-> FALSE, resource |-> NewResource, err |-> NoErr]
NilResult == [alloc |-> FALSE, hasRes |-> FALSE, resource |-> NewResource, err |-> NoErr]

\* no helper call is in progress
NoMerge == [pc |-> "none", to |-> NewResource, from |-> NewResource,
            overrideTo |-> FALSE, to0 |-> NewResource]
NoFlatten == [pc |-> "none", am |-> NewResource, mp |-> NewResource]

NoRet == [hasRes |-> FALSE, resource |-> NewResource, err |-> NoErr]

(* ------------------------- AttributesToMap ----------------------------- *)

\* longest array among the attribute values
MaxArrayLen == 2

\* pdata.AttributeValue: its Type() and what it holds
AttrVal(t, v) == [type |-> t, val |-> v]

\* interface{}: the dynamic Go type and the plain value
Plain(g, v) == [go |-> g, val |-> v]

\* scalar attribute values, the null value and one of a type the switch
\* does not know; a double is written as a fraction
Scalars ==
  {AttrVal("BOOL", TRUE), AttrVal("INT", 7), AttrVal("DOUBLE", <<3, 2>>),
   AttrVal("STRING", "s"), AttrVal("NULL", 0), AttrVal("OTHER", 0)}

\* keys of nested maps
NestedKeys == {"n"}

\* scalars, arrays of scalars and maps of scalars
Level1 ==
  Scalars
    \cup {AttrVal("ARRAY", a) : a \in UNION {[1..m -> Scalars] : m \in 0..MaxArrayLen}}
    \cup {AttrVal("MAP", f) : f \in UNION {[D -> Scalars] : D \in SUBSET NestedKeys}}

\* values nested more deeply: an array holding a map that holds an array,
\* and a map holding a map that holds an array
Deep ==
  {AttrVal("ARRAY",
           << AttrVal("MAP", ("n" :> AttrVal("ARRAY", << AttrVal("INT", 7),
                                                        AttrVal("BOOL", TRUE) >>))),
              AttrVal("STRING", "s") >>),
   AttrVal("MAP",
           ("n" :> AttrVal("MAP", ("n" :> AttrVal("ARRAY", << AttrVal("STRING", "s") >>)))))}

\* a resource with a boolean, an integer, a string, a nested map and an array
FiveEntries ==
  [k \in {"k1", "k2", "k3", "k4", "k5"} |->
     CASE k = "k1" -> AttrVal("BOOL", TRUE)
       [] k = "k2" -> AttrVal("INT", 7)
       [] k = "k3" -> AttrVal("STRING", "s")
       [] k = "k4" -> AttrVal("MAP", ("n" :> AttrVal("INT", 7)))
       [] k = "k5" -> AttrVal("ARRAY", << AttrVal("STRING", "s"), AttrVal("INT", 7) >>)]

\* the attribute maps AttributesToMap is called on
AttributeMaps ==
  UNION {[D -> Level1 \cup Deep] : D \in SUBSET Keys} \cup {FiveEntries}

RECURSIVE UnwrapAttribute(_)
RECURSIVE AttributesToMap(_)
RECURSIVE getSerializableArray(_)
RECURSIVE getSerializableArray_Reversed(_)

\* am.Range: mp[k] = UnwrapAttribute(v) for every entry
AttributesToMap(am) == [k \in DOMAIN am |-> UnwrapAttribute(am[k])]

\* an array built by prepending each unwrapped element
getSerializableArray_Reversed(inArr) ==
  IF Len(inArr) = 0 THEN << >>
  ELSE Append(getSerializableArray_Reversed(Tail(inArr)), UnwrapAttribute(Head(inArr)))

\* outArr = append(outArr, UnwrapAttribute(inArr.At(i))) for i = 0 .. Len-1
getSerializableArray(inArr) ==
  IF Len(inArr) = 0 THEN << >>
  ELSE <<UnwrapAttribute(Head(inArr))>> \o getSerializableArray(Tail(inArr))

\* switch v.Type()
UnwrapAttribute(v) ==
  CASE v.type = "BOOL" -> Plain("bool", v.val)
    [] v.type = "INT" -> Plain("int64", v.val)
    [] v.type = "DOUBLE" -> Plain("float64", v.val)
    [] v.type = "STRING" -> Plain("string", v.val)
    [] v.type = "ARRAY" -> Plain("slice", getSerializableArray(v.val))
    [] v.type = "MAP" -> Plain("map", AttributesToMap(v.val))
    [] OTHER -> Plain("nil", 0)

(* --------------------- ResourceProviderFactory ------------------------- *)

\* sequences over S of length at most n
BoundedSeq(S, n) == UNION {[1..m -> S] : m \in 0..n}

\* the Detector a registered DetectorFactory builds from a config
NewDetector(t, c) == [type |-> t, cfg |-> c]

\* ResourceDetectorConfig.GetConfigFromType
GetConfigFromType(t) == detectorConfigs[t]

NoCreateErr == [kind |-> NoErr, type |-> "", cause |-> NoErr]
\* fmt.Errorf("invalid detector key: %v", detectorType)
InvalidKeyErr(t) == [kind |-> "invalid detector key", type |-> t, cause |-> NoErr]
\* fmt.Errorf("failed creating detector type %q: %w", detectorType, err)
FailedCreatingErr(t, e) == [kind |-> "failed creating detector type", type |-> t, cause |-> e]

NoCreateRet == [provider |-> FALSE, err |-> NoCreateErr]

\* an unknown type is skipped and the loop goes on
LookupMiss_Skip ==
  /\ UNCHANGED uvars
  /\ fpc = "getDetectors"
  /\ fidx <= Len(detectorTypes)
  /\ detectorTypes[fidx] \notin Registered
  /\ fidx' = fidx + 1
  /\ UNCHANGED <<detectorTypes, detectorConfigs, fpc, detectors, ctorCalls, createRet>>
  /\ UNCHANGED <<pvars, gvars, hvars>>

\* getDetectors: f.detectors[detectorType] misses; both functions return the error
LookupMiss ==
  /\ UNCHANGED uvars
  /\ fpc = "getDetectors"
  /\ fidx <= Len(detectorTypes)
  /\ detectorTypes[fidx] \notin Registered
  /\ createRet' = [provider |-> FALSE, err |-> InvalidKeyErr(detectorTypes[fidx])]
  /\ fpc' = "returned"
  /\ UNCHANGED <<detectorTypes, detectorConfigs, fidx, detectors, ctorCalls>>
  /\ UNCHANGED <<pvars, gvars, hvars>>

\* every factory gets the configuration of the first requested type
CtorOk_FirstConfig ==
  /\ UNCHANGED uvars
  /\ fpc = "getDetectors"
  /\ fidx <= Len(detectorTypes)
  /\ detectorTypes[fidx] \in Registered
  /\ LET t == detectorTypes[fidx]
         c == GetConfigFromType(detectorTypes[1])
     IN /\ ctorCalls' = Append(ctorCalls, [type |-> t, cfg |-> c, result |-> "ok"])
        /\ detectors' = Append(detectors, NewDetector(t, c))
  /\ fidx' = fidx + 1
  /\ UNCHANGED <<detectorTypes, detectorConfigs, fpc, createRet>>
  /\ UNCHANGED <<pvars, gvars, hvars>>

\* getDetectors: the registered factory is invoked and returns a detector
CtorOk ==
  /\ UNCHANGED uvars
  /\ fpc = "getDetectors"
  /\ fidx <= Len(detectorTypes)
  /\ detectorTypes[fidx] \in Registered
  /\ LET t == detectorTypes[fidx]
         c == GetConfigFromType(t)
     IN /\ ctorCalls' = Append(ctorCalls, [type |-> t, cfg |-> c, result |-> "ok"])
        /\ detectors' = Append(detectors, NewDetector(t, c))
  /\ fidx' = fidx + 1
  /\ UNCHANGED <<detectorTypes, detectorConfigs, fpc, createRet>>
  /\ UNCHANGED <<pvars, gvars, hvars>>

\* getDetectors: the registered factory is invoked and returns an error
CtorFail ==
  /\ UNCHANGED uvars
  /\ fpc = "getDetectors"
  /\ fidx <= Len(detectorTypes)
  /\ detectorTypes[fidx] \in Registered
  /\ \E e \in CtorErrs :
       LET t == detectorTypes[fidx]
           c == GetConfigFromType(t)
       IN /\ ctorCalls' = Append(ctorCalls, [type |-> t, cfg |-> c, result |-> e])
          /\ createRet' = [provider |-> FALSE, err |-> FailedCreatingErr(t, e)]
  /\ fpc' = "returned"
  /\ UNCHANGED <<detectorTypes, detectorConfigs, fidx, detectors>>
  /\ UNCHANGED <<pvars, gvars, hvars>>

\* getDetectors returns the slice; NewResourceProvider(logger, timeout, detectors...)
CreateProvider ==
  /\ UNCHANGED uvars
  /\ fpc = "getDetectors"
  /\ fidx > Len(detectorTypes)
  /\ p_detectors' = detectors
  /\ createRet' = [provider |-> TRUE, err |-> NoCreateErr]
  /\ fpc' = "returned"
  /\ UNCHANGED <<detectorTypes, detectorConfigs, fidx, detectors, ctorCalls>>
  /\ UNCHANGED <<detectedResource, onceDone, onceM>>
  /\ UNCHANGED <<gvars, hvars>>

(* -------------------------- ResourceProvider --------------------------- *)

NoOutcome == [kind |-> "none", err |-> NoErr, at |-> 0]

NoCtx == [armed |-> FALSE, err |-> NoErr, parentDone |-> FALSE]

\* how a Detect call may behave: it returns on its own, it blocks until its
\* context is done and returns the context's error, or it never returns
Behaviours == {"returns", "waitsctx", "never"}

\* a Get that gives up at once when its own context is already done
GetCall_SkipWhenCancelled(c) ==
  /\ UNCHANGED uvars
  /\ createRet.provider
  /\ pc[c] = "idle"
  /\ pc' = [pc EXCEPT ![c] = IF onceDone \/ cancelled[c] THEN "return" ELSE "lock"]
  /\ entered' = [entered EXCEPT ![c] = IF onceDone THEN "settled" ELSE "pending"]
  /\ UNCHANGED <<fvars, pvars, cancelled, runCtx, res, idx, beh, ret, invoked, runner, runs, outs, outcome>>

\* Get is called and p.once.Do reads the done flag on its fast path
GetCall(c) ==
  /\ UNCHANGED uvars
  /\ createRet.provider
  /\ pc[c] = "idle"
  /\ pc' = [pc EXCEPT ![c] = IF onceDone THEN "return" ELSE "lock"]
  /\ entered' = [entered EXCEPT ![c] = IF onceDone THEN "settled" ELSE "pending"]
  /\ UNCHANGED <<fvars, pvars, cancelled, runCtx, res, idx, beh, ret, invoked, runner, runs, outs, outcome>>

\* doSlow that does not read the done flag again under the mutex
OnceLock_NoRecheck(c) ==
  /\ UNCHANGED uvars
  /\ pc[c] = "lock"
  /\ onceM = 0
  /\ pc' = [pc EXCEPT ![c] = "begin"]
  /\ onceM' = c
  /\ UNCHANGED <<fvars, p_detectors, detectedResource, onceDone>>
  /\ UNCHANGED <<cancelled, runCtx, res, idx, beh, ret, hvars>>

\* sync.Once.doSlow: take the mutex and read the done flag again
OnceLock(c) ==
  /\ UNCHANGED uvars
  /\ pc[c] = "lock"
  /\ onceM = 0
  /\ IF onceDone
       THEN /\ pc' = [pc EXCEPT ![c] = "return"]
            /\ UNCHANGED onceM
       ELSE /\ pc' = [pc EXCEPT ![c] = "begin"]
            /\ onceM' = c
  /\ UNCHANGED <<fvars, p_detectors, detectedResource, onceDone>>
  /\ UNCHANGED <<cancelled, runCtx, res, idx, beh, ret, hvars>>

\* the run gets the caller's context as it is, without a timeout
Begin_NoTimeout(c) ==
  /\ UNCHANGED uvars
  /\ pc[c] = "begin"
  /\ runCtx' = [armed |-> FALSE,
                err |-> IF cancelled[c] THEN Canceled ELSE NoErr,
                parentDone |-> cancelled[c]]
  /\ detectedResource' = ZeroResult
  /\ res' = NewResource
  /\ idx' = 1
  /\ runner' = IF runner = 0 THEN c ELSE runner
  /\ runs' = runs + 1
  /\ pc' = [pc EXCEPT ![c] = "loop"]
  /\ UNCHANGED <<fvars, p_detectors, onceDone, onceM>>
  /\ UNCHANGED <<cancelled, beh, ret, invoked, entered, outs, outcome>>

\* the function handed to once.Do starts: context.WithTimeout(ctx, p.timeout),
\* then detectResource allocates the result and the empty resource
Begin(c) ==
  /\ UNCHANGED uvars
  /\ pc[c] = "begin"
  /\ runCtx' = [armed |-> TRUE,
                err |-> IF cancelled[c] THEN Canceled ELSE NoErr,
                parentDone |-> cancelled[c]]
  /\ detectedResource' = ZeroResult
  /\ res' = NewResource
  /\ idx' = 1
  /\ runner' = IF runner = 0 THEN c ELSE runner
  /\ runs' = runs + 1
  /\ pc' = [pc EXCEPT ![c] = "loop"]
  /\ UNCHANGED <<fvars, p_detectors, onceDone, onceM>>
  /\ UNCHANGED <<cancelled, beh, ret, invoked, entered, outs, outcome>>

\* the loop starts every remaining detector at once
DetectCall_FanOut(c) ==
  /\ UNCHANGED uvars
  /\ pc[c] = "loop"
  /\ idx <= Len(p_detectors)
  /\ \E b \in Behaviours : beh' = b
  /\ invoked' = [i \in DOMAIN invoked |->
                   IF i >= idx /\ i <= Len(p_detectors) THEN invoked[i] + 1 ELSE invoked[i]]
  /\ pc' = [pc EXCEPT ![c] = "detect"]
  /\ UNCHANGED <<fvars, pvars, cancelled, runCtx, res, idx, ret, runner, entered, runs, outs, outcome>>

\* for _, detector := range p.detectors: detector.Detect(ctx) is called
DetectCall(c) ==
  /\ UNCHANGED uvars
  /\ pc[c] = "loop"
  /\ idx <= Len(p_detectors)
  /\ \E b \in Behaviours : beh' = b
  /\ invoked' = [invoked EXCEPT ![idx] = @ + 1]
  /\ pc' = [pc EXCEPT ![c] = "detect"]
  /\ UNCHANGED <<fvars, pvars, cancelled, runCtx, res, idx, ret, runner, entered, runs, outs, outcome>>

\* the output is merged with overrideTo = true
DetectOk_Override(c) ==
  /\ UNCHANGED uvars
  /\ pc[c] = "detect"
  /\ beh = "returns"
  /\ \E r \in DetectOutputs :
       /\ res' = MergeResource(res, r, TRUE)
       /\ outs' = Append(outs, r)
  /\ idx' = idx + 1
  /\ pc' = [pc EXCEPT ![c] = "loop"]
  /\ UNCHANGED <<fvars, pvars, cancelled, runCtx, beh, ret>>
  /\ UNCHANGED <<invoked, runner, entered, runs, outcome>>

\* Detect returns (r, nil): MergeResource(res, r, false)
DetectOk(c) ==
  /\ UNCHANGED uvars
  /\ pc[c] = "detect"
  /\ beh = "returns"
  /\ \E r \in DetectOutputs :
       /\ res' = MergeResource(res, r, FALSE)
       /\ outs' = Append(outs, r)
  /\ idx' = idx + 1
  /\ pc' = [pc EXCEPT ![c] = "loop"]
  /\ UNCHANGED <<fvars, pvars, cancelled, runCtx, beh, ret>>
  /\ UNCHANGED <<invoked, runner, entered, runs, outcome>>

\* the error branch also publishes what was merged so far
DetectErr_KeepPartial(c) ==
  /\ UNCHANGED uvars
  /\ pc[c] = "detect"
  /\ beh = "returns"
  /\ \E e \in DetectErrs :
       /\ detectedResource' = [detectedResource EXCEPT !.err = e, !.hasRes = TRUE,
                                                       !.resource = res]
       /\ outcome' = [kind |-> "err", err |-> e, at |-> idx]
  /\ pc' = [pc EXCEPT ![c] = "unwind"]
  /\ UNCHANGED <<fvars, p_detectors, onceDone, onceM>>
  /\ UNCHANGED <<cancelled, runCtx, res, idx, beh, ret, invoked, runner, entered, runs, outs>>

\* Detect returns an error: p.detectedResource.err = err; return
DetectErr(c) ==
  /\ UNCHANGED uvars
  /\ pc[c] = "detect"
  /\ beh = "returns"
  /\ \E e \in DetectErrs :
       /\ detectedResource' = [detectedResource EXCEPT !.err = e]
       /\ outcome' = [kind |-> "err", err |-> e, at |-> idx]
  /\ pc' = [pc EXCEPT ![c] = "unwind"]
  /\ UNCHANGED <<fvars, p_detectors, onceDone, onceM>>
  /\ UNCHANGED <<cancelled, runCtx, res, idx, beh, ret, invoked, runner, entered, runs, outs>>

\* a Detect that honours its context returns ctx.Err() once the context is done
DetectCtxErr(c) ==
  /\ UNCHANGED uvars
  /\ pc[c] = "detect"
  /\ beh = "waitsctx"
  /\ runCtx.err # NoErr
  /\ detectedResource' = [detectedResource EXCEPT !.err = runCtx.err]
  /\ outcome' = [kind |-> "ctx", err |-> runCtx.err, at |-> idx]
  /\ pc' = [pc EXCEPT ![c] = "unwind"]
  /\ UNCHANGED <<fvars, p_detectors, onceDone, onceM>>
  /\ UNCHANGED <<cancelled, runCtx, res, idx, beh, ret, invoked, runner, entered, runs, outs>>

\* the panic is recovered inside the run and stored as the run's error
DetectPanic_Recovered(c) ==
  /\ UNCHANGED uvars
  /\ pc[c] = "detect"
  /\ beh = "returns"
  /\ \E e \in DetectErrs : detectedResource' = [detectedResource EXCEPT !.err = e]
  /\ outcome' = [kind |-> "panic", err |-> NoErr, at |-> idx]
  /\ pc' = [pc EXCEPT ![c] = "unwind"]
  /\ UNCHANGED <<fvars, p_detectors, onceDone, onceM>>
  /\ UNCHANGED <<cancelled, runCtx, res, idx, beh, ret, invoked, runner, entered, runs, outs>>

\* Detect panics: detectResource and the once function unwind
DetectPanic(c) ==
  /\ UNCHANGED uvars
  /\ pc[c] = "detect"
  /\ beh = "returns"
  /\ outcome' = [kind |-> "panic", err |-> NoErr, at |-> idx]
  /\ pc' = [pc EXCEPT ![c] = "unwindPanic"]
  /\ UNCHANGED <<fvars, pvars, cancelled, runCtx, res, idx, beh, ret, invoked, runner, entered, runs, outs>>

\* the run ends without storing the accumulated resource
Finish_NoStore(c) ==
  /\ UNCHANGED uvars
  /\ pc[c] = "loop"
  /\ idx > Len(p_detectors)
  /\ outcome' = [kind |-> "ok", err |-> NoErr, at |-> idx]
  /\ pc' = [pc EXCEPT ![c] = "unwind"]
  /\ UNCHANGED <<fvars, pvars>>
  /\ UNCHANGED <<cancelled, runCtx, res, idx, beh, ret, invoked, runner, entered, runs, outs>>

\* the range loop is over: p.detectedResource.resource = res
Finish(c) ==
  /\ UNCHANGED uvars
  /\ pc[c] = "loop"
  /\ idx > Len(p_detectors)
  /\ detectedResource' = [detectedResource EXCEPT !.hasRes = TRUE, !.resource = res]
  /\ outcome' = [kind |-> "ok", err |-> NoErr, at |-> idx]
  /\ pc' = [pc EXCEPT ![c] = "unwind"]
  /\ UNCHANGED <<fvars, p_detectors, onceDone, onceM>>
  /\ UNCHANGED <<cancelled, runCtx, res, idx, beh, ret, invoked, runner, entered, runs, outs>>

\* a once that stores done only when the run left no error
Unwind_RetryOnError(c) ==
  /\ UNCHANGED uvars
  /\ pc[c] \in {"unwind", "unwindPanic"}
  /\ runCtx' = NoCtx
  /\ onceDone' = (detectedResource.err = NoErr)
  /\ onceM' = 0
  /\ pc' = [pc EXCEPT ![c] = IF pc[c] = "unwind" THEN "return" ELSE "panicked"]
  /\ res' = NewResource /\ idx' = 0 /\ beh' = "returns"
  /\ UNCHANGED <<fvars, p_detectors, detectedResource>>
  /\ UNCHANGED <<cancelled, ret, hvars>>

\* the deferred calls: cancel() releases the run's context, then sync.Once
\* stores done and unlocks; the locals of the run are gone; a panic goes on to
\* the caller of Get
Unwind(c) ==
  /\ UNCHANGED uvars
  /\ pc[c] \in {"unwind", "unwindPanic"}
  /\ runCtx' = NoCtx
  /\ onceDone' = TRUE
  /\ onceM' = 0
  /\ pc' = [pc EXCEPT ![c] = IF pc[c] = "unwind" THEN "return" ELSE "panicked"]
  /\ res' = NewResource /\ idx' = 0 /\ beh' = "returns"
  /\ UNCHANGED <<fvars, p_detectors, detectedResource>>
  /\ UNCHANGED <<cancelled, ret, hvars>>

\* Get hands back the error of its own context when that context is done
Return_CtxErr(c) ==
  /\ UNCHANGED uvars
  /\ pc[c] = "return"
  /\ IF detectedResource.alloc
       THEN /\ ret' = [ret EXCEPT ![c] = [hasRes |-> detectedResource.hasRes,
                                          resource |-> detectedResource.resource,
                                          err |-> IF cancelled[c] THEN Canceled
                                                  ELSE detectedResource.err]]
            /\ pc' = [pc EXCEPT ![c] = "done"]
       ELSE /\ pc' = [pc EXCEPT ![c] = "panicked"]
            /\ UNCHANGED ret
  /\ UNCHANGED <<fvars, pvars, cancelled, runCtx, res, idx, beh, hvars>>

\* return p.detectedResource.resource, p.detectedResource.err
Return(c) ==
  /\ UNCHANGED uvars
  /\ pc[c] = "return"
  /\ IF detectedResource.alloc
       THEN /\ ret' = [ret EXCEPT ![c] = [hasRes |-> detectedResource.hasRes,
                                          resource |-> detectedResource.resource,
                                          err |-> detectedResource.err]]
            /\ pc' = [pc EXCEPT ![c] = "done"]
       ELSE /\ pc' = [pc EXCEPT ![c] = "panicked"]
            /\ UNCHANGED ret
  /\ UNCHANGED <<fvars, pvars, cancelled, runCtx, res, idx, beh, hvars>>

\* the run's context is not a child of the caller's context
Cancel_NoPropagate(c) ==
  /\ UNCHANGED uvars
  /\ createRet.provider
  /\ ~cancelled[c]
  /\ cancelled' = [cancelled EXCEPT ![c] = TRUE]
  /\ UNCHANGED <<fvars, pvars, pc, runCtx, res, idx, beh, ret, hvars>>

\* the owner of a caller's inbound context cancels it
Cancel(c) ==
  /\ UNCHANGED uvars
  /\ createRet.provider
  /\ ~cancelled[c]
  /\ cancelled' = [cancelled EXCEPT ![c] = TRUE]
  /\ IF onceM = c /\ pc[c] \in {"loop", "detect"}
       THEN runCtx' = [runCtx EXCEPT !.err = IF @ = NoErr THEN Canceled ELSE @,
                                     !.parentDone = TRUE]
       ELSE UNCHANGED runCtx
  /\ UNCHANGED <<fvars, pvars, pc, res, idx, beh, ret, hvars>>

\* the timer of context.WithTimeout fires
TimeoutFire ==
  /\ UNCHANGED uvars
  /\ runCtx.armed
  /\ runCtx.err = NoErr
  /\ runCtx' = [runCtx EXCEPT !.err = DeadlineExceeded]
  /\ UNCHANGED <<fvars, pvars, pc, cancelled, res, idx, beh, ret, hvars>>

(* --------------------------- specifications ---------------------------- *)

GetInit ==
  /\ detectedResource = NilResult
  /\ onceDone = FALSE
  /\ onceM = 0
  /\ pc = [c \in Callers |-> "idle"]
  /\ cancelled = [c \in Callers |-> FALSE]
  /\ runCtx = NoCtx
  /\ res = NewResource
  /\ idx = 0
  /\ beh = "returns"
  /\ ret = [c \in Callers |-> NoRet]
  /\ invoked = [i \in 1..MaxDetectors |-> 0]
  /\ runner = 0
  /\ entered = [c \in Callers |-> "none"]
  /\ runs = 0
  /\ outs = << >>
  /\ outcome = NoOutcome

\* CreateResourceProvider has just been called on a factory over Registered
FactoryInit ==
  /\ detectorTypes \in BoundedSeq(DetectorTypes, MaxTypes)
  /\ detectorConfigs \in [DetectorTypes -> Configs]
  /\ fpc = "getDetectors"
  /\ fidx = 1
  /\ detectors = << >>
  /\ ctorCalls = << >>
  /\ createRet = NoCreateRet
  /\ p_detectors = << >>
  /\ GetInit
  /\ merge = NoMerge
  /\ flatten = NoFlatten

FactoryNext == LookupMiss \/ CtorOk \/ CtorFail \/ CreateProvider

SpecFactory == FactoryInit /\ [][FactoryNext]_vars

\* the detector list of length n a provider is constructed over
DetectorList(n) ==
  [i \in 1..n |-> NewDetector(IF i % 2 = 1 THEN "X" ELSE "Y", "cfgA")]

\* NewResourceProvider(logger, timeout, detectors...) has returned
Init ==
  /\ \E n \in 0..MaxDetectors :
       /\ p_detectors = DetectorList(n)
       /\ detectors = p_detectors
       /\ detectorTypes = [i \in 1..n |-> p_detectors[i].type]
       /\ ctorCalls = [i \in 1..n |-> [type |-> p_detectors[i].type,
                                        cfg |-> p_detectors[i].cfg, result |-> "ok"]]
       /\ fidx = n + 1
  /\ detectorConfigs = [t \in DetectorTypes |-> "cfgA"]
  /\ fpc = "returned"
  /\ createRet = [provider |-> TRUE, err |-> NoCreateErr]
  /\ GetInit
  /\ merge = NoMerge
  /\ flatten = NoFlatten

Next ==
  \/ \E c \in Callers :
       \/ GetCall(c) \/ OnceLock(c) \/ Begin(c)
       \/ DetectCall(c) \/ DetectOk(c) \/ DetectErr(c) \/ DetectCtxErr(c)
       \/ DetectPanic(c) \/ Finish(c) \/ Unwind(c) \/ Return(c)
       \/ Cancel(c)
  \/ TimeoutFire

Spec == Init /\ [][Next]_vars

\* no factory, provider or Get call is part of a helper call
NoProgram ==
  /\ detectorTypes = << >>
  /\ detectorConfigs = [t \in DetectorTypes |-> "cfgA"]
  /\ fpc = "none"
  /\ fidx = 0
  /\ detectors = << >>
  /\ ctorCalls = << >>
  /\ createRet = NoCreateRet
  /\ p_detectors = << >>
  /\ GetInit

\* MergeResource(to, from, overrideTo) runs: it writes to the target only
MergeCall ==
  /\ merge.pc = "call"
  /\ merge' = [merge EXCEPT !.pc = "returned",
                            !.to = MergeResource(merge.to, merge.from, merge.overrideTo)]
  /\ UNCHANGED <<fvars, pvars, gvars, hvars, flatten>>

\* MergeResource is about to be called on any two resources
MergeInit ==
  /\ NoProgram
  /\ \E t \in Resource, f \in Resource, o \in BOOLEAN :
       merge = [pc |-> "call", to |-> t, from |-> f, overrideTo |-> o, to0 |-> t]
  /\ flatten = NoFlatten

MergeNext == MergeCall

\* AttributesToMap(am) runs and returns the plain map
FlattenCall ==
  /\ flatten.pc = "call"
  /\ flatten' = [flatten EXCEPT !.pc = "returned", !.mp = AttributesToMap(flatten.am)]
  /\ UNCHANGED <<fvars, pvars, gvars, hvars, merge>>

\* AttributesToMap is about to be called on any attribute map
FlattenInit ==
  /\ NoProgram
  /\ merge = NoMerge
  /\ \E am \in AttributeMaps : flatten = [pc |-> "call", am |-> am, mp |-> NewResource]

FlattenNext == FlattenCall

SpecFlatten == FlattenInit /\ [][FlattenNext]_vars

SpecMerge == MergeInit /\ [][MergeNext]_vars

\* goroutines that are inside Get keep being scheduled and the runtime timer
\* fires; nobody is obliged to call Get or to cancel a context
Fairness ==
  /\ \A c \in Callers :
       WF_vars(\/ OnceLock(c) \/ Begin(c)
               \/ DetectCall(c) \/ DetectOk(c) \/ DetectErr(c) \/ DetectCtxErr(c)
               \/ DetectPanic(c) \/ Finish(c) \/ Unwind(c) \/ Return(c))
  /\ WF_vars(TimeoutFire)

FairSpec == Spec /\ Fairness

(* ------------------------------ properties ----------------------------- *)

\* what Get hands back from a resourceResult
ResultOf(d) == [hasRes |-> d.hasRes, resource |-> d.resource, err |-> d.err]

\* the position of the earliest output that has key k
FirstWith(os, k) ==
  CHOOSE i \in 1..Len(os) : k \in DOMAIN os[i] /\ \A j \in 1..(i - 1) : k \notin DOMAIN os[j]

\* union of the outputs' keys, each with the value of the earliest output having it
Expected(os) ==
  [k \in UNION {DOMAIN os[i] : i \in 1..Len(os)} |-> os[FirstWith(os, k)][k]]

\* C1: with any number of concurrent Get calls, in every interleaving,
\* detectResource is started at most once (exactly once as soon as a call has
\* returned), each detector is invoked at most once, a successful run invoked
\* every detector once, and all calls that returned hold the identical result.
C1_RunOnce ==
  /\ runs <= 1
  /\ \A i \in DOMAIN invoked : invoked[i] <= 1
  /\ \A c \in Callers : pc[c] = "done" => runs = 1
  /\ outcome.kind = "ok" => \A i \in 1..Len(p_detectors) : invoked[i] = 1
  /\ \A c, d \in Callers : (pc[c] = "done" /\ pc[d] = "done") => ret[c] = ret[d]

\* two calls entered Get before the run settled and both returned its resource
C1_Witness ==
  /\ \A c \in Callers : entered[c] = "pending" /\ pc[c] = "done" /\ ret[c].hasRes
  /\ Len(p_detectors) = 2
  /\ invoked[1] = 1 /\ invoked[2] = 1
  /\ ret[1].resource = ("a" :> 1 @@ "b" :> 2)

\* C2: no Get call returns before the single run has completed, every call
\* returns the settled result, and no call observes an unset result (neither
\* a resource nor an error) or a partially merged one.
C2_NoUnsetResult ==
  \A c \in Callers :
    pc[c] = "done" =>
      /\ onceDone
      /\ outcome.kind # "none"
      /\ ret[c] = ResultOf(detectedResource)
      /\ ret[c].hasRes \/ ret[c].err # NoErr
      /\ ret[c].hasRes =>
           Len(outs) = Len(p_detectors) /\ ret[c].resource = Expected(outs)

\* C3: once the run has ended (success, failure or panic) no detector is
\* invoked again, detectResource is not started again and the memoized result
\* never changes; every Get that returns, returns that result.
C3_NeverRerun ==
  /\ [][outcome.kind # "none" =>
          /\ invoked' = invoked
          /\ runs' = runs
          /\ detectedResource' = detectedResource]_vars
  /\ [](\A c \in Callers : pc[c] = "done" => ret[c] = ResultOf(detectedResource))

\* a call entered after a failed run, with a cancelled context, got the failure
C3_Witness ==
  /\ outcome.kind = "err"
  /\ \E c \in Callers :
       /\ entered[c] = "settled" /\ cancelled[c] /\ pc[c] = "done"
       /\ ret[c].err = outcome.err /\ ret[c].err \in DetectErrs
  /\ runs = 1

\* C4: when the detector at position i returns an error, no detector after i
\* is ever invoked, the memoized error is that detector's error, and the
\* Resource returned with it has no attribute of the earlier detectors.
C4_AbortOnError ==
  outcome.kind \in {"err", "ctx"} =>
    /\ \A j \in DOMAIN invoked : j > outcome.at => invoked[j] = 0
    /\ detectedResource.err = outcome.err
    /\ outcome.err # NoErr
    /\ ~detectedResource.hasRes
    /\ \A c \in Callers :
         pc[c] = "done" =>
           /\ ret[c].err = outcome.err
           /\ ~ret[c].hasRes
           /\ ret[c].resource = NewResource

\* the second detector failed after the first contributed a key, and Get returned
C4_Witness ==
  /\ outcome.kind = "err" /\ outcome.at = 2
  /\ Len(outs) = 1 /\ DOMAIN outs[1] # {}
  /\ \E c \in Callers : pc[c] = "done" /\ ret[c].err = outcome.err

\* C5: when every detector succeeds, the Resource Get returns has the union
\* of the outputs' keys and each key has the value of the earliest detector
\* that produced it; no error is reported for a collision.
C5_FirstWins ==
  outcome.kind = "ok" =>
    /\ Len(outs) = Len(p_detectors)
    /\ detectedResource = [alloc |-> TRUE, hasRes |-> TRUE,
                           resource |-> Expected(outs), err |-> NoErr]
    /\ \A c \in Callers :
         pc[c] = "done" =>
           ret[c] = [hasRes |-> TRUE, resource |-> Expected(outs), err |-> NoErr]

\* D1 = {a:1}, D2 = {a:2, b:2}: Get returned {a:1, b:2}
C5_Witness ==
  /\ outcome.kind = "ok"
  /\ outs = << ("a" :> 1), ("a" :> 2 @@ "b" :> 2) >>
  /\ \E c \in Callers :
       pc[c] = "done" /\ ret[c].resource = ("a" :> 1 @@ "b" :> 2) /\ ret[c].err = NoErr

\* C6 as stated: whatever the Detect call in progress does, also when it never
\* returns, once the timeout has fired the Get call that runs it eventually
\* returns, with an error.
C6_TimeoutAlwaysEnds ==
  (\E c \in Callers : pc[c] = "detect" /\ beh \in {"waitsctx", "never"}
                         /\ runCtx.err = DeadlineExceeded)
    ~> (runner # 0 /\ pc[runner] = "done" /\ ret[runner].err # NoErr)

\* C6 (amended): a Detect call that blocks until its context is done makes the
\* Get call that runs it return eventually, with the context's error and not
\* before the context is done; without a cancellation by the caller that
\* error is the timeout's.
C6_TimeoutCooperative ==
  /\ (\E c \in Callers : pc[c] = "detect" /\ beh = "waitsctx")
       ~> (runner # 0 /\ pc[runner] = "done" /\ ret[runner].err \in CtxErrs)
  /\ [](outcome.kind = "ctx" =>
          /\ detectedResource.err = outcome.err
          /\ outcome.err \in CtxErrs
          /\ \A c \in Callers :
               pc[c] = "unwind" =>
                 /\ runCtx.err = outcome.err
                 /\ ~runCtx.parentDone => outcome.err = DeadlineExceeded)

\* the timeout fired under a blocked detector and Get returned its error
C6_Witness ==
  /\ outcome.kind = "ctx" /\ outcome.err = DeadlineExceeded
  /\ \E c \in Callers :
       c = runner /\ ~cancelled[c] /\ pc[c] = "done" /\ ret[c].err = DeadlineExceeded

\* C7 as stated: a cancellation of the first caller's context before or
\* during the run makes the run fail with the cancellation error.
C7_CancelAlwaysFails ==
  \A c \in Callers :
    (pc[c] = "unwind" /\ runCtx.parentDone) => detectedResource.err = Canceled

\* C7 (amended): once the first caller's context is cancelled, before or
\* during the run, the context handed to the detectors is done; a Detect call
\* that honours it then fails with the context's error (the cancellation
\* error unless the timeout fired first), and that error stays the memoized
\* result that every Get returns.
C7_CancelCooperative ==
  /\ (\E c \in Callers : pc[c] = "detect" /\ beh = "waitsctx" /\ cancelled[c]
                            /\ runCtx.err # DeadlineExceeded)
       ~> (outcome.kind = "ctx" /\ onceDone /\ detectedResource.err = Canceled)
  /\ [](\A c \in Callers :
          (pc[c] \in {"loop", "detect"} /\ cancelled[c]) => runCtx.err # NoErr)
  /\ [](outcome.kind = "ctx" =>
          /\ outcome.err = Canceled => cancelled[runner]
          /\ detectedResource.err = outcome.err
          /\ \A c \in Callers :
               pc[c] = "done" => ret[c].err = outcome.err /\ ~ret[c].hasRes)
  /\ [][outcome.kind = "ctx" =>
          detectedResource' = detectedResource /\ runs' = runs /\ invoked' = invoked]_vars

\* the runner's context was cancelled during Detect; a later Get got the error
C7_Witness ==
  /\ outcome.kind = "ctx" /\ outcome.err = Canceled
  /\ runner # 0 /\ cancelled[runner] /\ entered[runner] = "pending"
  /\ \E c \in Callers :
       c # runner /\ entered[c] = "settled" /\ pc[c] = "done" /\ ret[c].err = Canceled

\* C8: CreateResourceProvider over [X, "bogus"], X registered and "bogus"
\* not, never invokes the constructor of X, returns no Provider and fails
\* with an error naming "bogus".
C8_UnknownTypeNothingBuilt ==
  (Len(detectorTypes) = 2 /\ detectorTypes[1] \in Registered
     /\ detectorTypes[2] = "bogus") =>
    /\ ctorCalls = << >>
    /\ fpc = "returned" =>
         ~createRet.provider /\ createRet.err = InvalidKeyErr("bogus")

\* C9: the constructors are invoked in the requested order, one per position,
\* and none after the first position whose type is unregistered or whose
\* constructor failed; then no Provider is returned and the error names the
\* type at that position (and wraps the constructor's error).
C9_StopAtFirstFailure ==
  LET n == Len(ctorCalls) IN
  /\ n <= Len(detectorTypes)
  /\ \A j \in 1..n :
       ctorCalls[j].type = detectorTypes[j] /\ ctorCalls[j].type \in Registered
  /\ \A j \in 1..(n - 1) : ctorCalls[j].result = "ok"
  /\ (fpc = "returned" /\ n > 0 /\ ctorCalls[n].result # "ok") =>
       createRet = [provider |-> FALSE,
                    err |-> FailedCreatingErr(detectorTypes[n], ctorCalls[n].result)]
  /\ (fpc = "returned" /\ (n = 0 \/ ctorCalls[n].result = "ok")
        /\ n < Len(detectorTypes)) =>
       /\ detectorTypes[n + 1] \notin Registered
       /\ createRet = [provider |-> FALSE, err |-> InvalidKeyErr(detectorTypes[n + 1])]
  /\ createRet.provider =>
       /\ \A i \in 1..Len(detectorTypes) : detectorTypes[i] \in Registered
       /\ n = Len(detectorTypes)
       /\ \A j \in 1..n : ctorCalls[j].result = "ok"

\* the constructor at position 1 failed: the registered type at position 2
\* was never constructed and the error wraps the constructor's error
C9_Witness ==
  /\ fpc = "returned" /\ ~createRet.provider
  /\ Len(detectorTypes) = 2 /\ detectorTypes[2] \in Registered
  /\ Len(ctorCalls) = 1 /\ ctorCalls[1].result \in CtorErrs
  /\ createRet.err.type = detectorTypes[1]
  /\ createRet.err.cause = ctorCalls[1].result

\* C10: when every requested type is registered and every constructor
\* succeeded, the Provider's detector list has one detector per requested
\* position, in order, each built for that position's type from the
\* configuration the config source gives for that type.
C10_OrderedDetectors ==
  (/\ fpc = "returned"
   /\ \A i \in 1..Len(detectorTypes) : detectorTypes[i] \in Registered
   /\ \A j \in 1..Len(ctorCalls) : ctorCalls[j].result = "ok") =>
    /\ createRet.provider
    /\ createRet.err = NoCreateErr
    /\ Len(p_detectors) = Len(detectorTypes)
    /\ Len(ctorCalls) = Len(detectorTypes)
    /\ \A i \in 1..Len(detectorTypes) :
         /\ p_detectors[i].type = detectorTypes[i]
         /\ p_detectors[i].cfg = detectorConfigs[detectorTypes[i]]
         /\ ctorCalls[i].type = detectorTypes[i]
         /\ ctorCalls[i].cfg = detectorConfigs[detectorTypes[i]]

\* a Provider over [Y, X] whose two types have different configurations
C10_Witness ==
  /\ fpc = "returned" /\ createRet.provider
  /\ detectorTypes = <<"Y", "X">>
  /\ detectorConfigs["X"] = "cfgA" /\ detectorConfigs["Y"] = "cfgB"
  /\ p_detectors = << [type |-> "Y", cfg |-> "cfgB"], [type |-> "X", cfg |-> "cfgA"] >>

C12_MergePolicy ==
  merge.pc = "returned" =>
    LET t0 == merge.to0
        f == merge.from
        t == merge.to
    IN /\ (merge.overrideTo /\ DOMAIN f # {}) =>
            /\ DOMAIN t = DOMAIN t0 \cup DOMAIN f
            /\ \A k \in DOMAIN f : t[k] = f[k]
            /\ \A k \in DOMAIN t0 \ DOMAIN f : t[k] = t0[k]
       /\ ~merge.overrideTo =>
            /\ DOMAIN t = DOMAIN t0 \cup DOMAIN f
            /\ \A k \in DOMAIN t0 : t[k] = t0[k]
            /\ \A k \in DOMAIN f \ DOMAIN t0 : t[k] = f[k]

\* merging {a:2, b:2} into {a:1} with overrideTo gave {a:2, b:2}
C12_Witness ==
  /\ merge.pc = "returned" /\ merge.overrideTo
  /\ merge.to0 = ("a" :> 1)
  /\ merge.from = ("a" :> 2 @@ "b" :> 2)
  /\ merge.to = ("a" :> 2 @@ "b" :> 2)

\* C13: MergeResource with a source that has no attribute leaves the target
\* as it was, whatever overrideTo is, and no MergeResource call changes its
\* source.
C13_EmptySourceNoOp ==
  /\ []((merge.pc = "returned" /\ DOMAIN merge.from = {}) => merge.to = merge.to0)
  /\ [][merge'.from = merge.from /\ merge'.to0 = merge.to0]_vars

\* an empty source was merged with overrideTo into {a:1, b:2}, which is unchanged
C13_Witness ==
  /\ merge.pc = "returned" /\ merge.overrideTo
  /\ merge.from = NewResource
  /\ merge.to0 = ("a" :> 1 @@ "b" :> 2)
  /\ merge.to = merge.to0

\* what the plain value of one attribute value has to be
RECURSIVE Preserved(_, _)
Preserved(v, out) ==
  CASE v.type = "BOOL" -> out.go = "bool" /\ out.val = v.val
    [] v.type = "INT" -> out.go = "int64" /\ out.val = v.val
    [] v.type = "STRING" -> out.go = "string" /\ out.val = v.val
    [] v.type = "DOUBLE" -> out.go = "float64" /\ out.val = v.val
    [] v.type = "MAP" ->
         /\ out.go = "map"
         /\ DOMAIN out.val = DOMAIN v.val
         /\ \A k \in DOMAIN v.val : Preserved(v.val[k], out.val[k])
    [] v.type = "ARRAY" ->
         /\ out.go = "slice"
         /\ Len(out.val) = Len(v.val)
         /\ \A i \in 1..Len(v.val) : Preserved(v.val[i], out.val[i])
    [] OTHER -> out.go = "nil"

\* C14: the map AttributesToMap returns has exactly the keys of the
\* attribute map; a bool, int or string entry is the equal plain scalar, a
\* nested map is the flattened map, an array is the list of its flattened
\* elements in the same order, and an unset or unknown type is nil.
C14_FlattenPreserves ==
  flatten.pc = "returned" =>
    /\ DOMAIN flatten.mp = DOMAIN flatten.am
    /\ \A k \in DOMAIN flatten.am : Preserved(flatten.am[k], flatten.mp[k])

\* the five-entry resource was flattened: all five keys, the array in order
C14_Witness ==
  /\ flatten.pc = "returned"
  /\ flatten.am = FiveEntries
  /\ DOMAIN flatten.mp = {"k1", "k2", "k3", "k4", "k5"}
  /\ flatten.mp["k1"] = [go |-> "bool", val |-> TRUE]
  /\ flatten.mp["k4"] = [go |-> "map", val |-> ("n" :> [go |-> "int64", val |-> 7])]
  /\ flatten.mp["k5"] = [go |-> "slice", val |-> << [go |-> "string", val |-> "s"],
                                                    [go |-> "int64", val |-> 7] >>]

\* C15: at every moment at most one Detect call of the provider is in
\* progress, however many callers are inside Get; detectors are started in the
\* configured order, and detector i+1 is started only after detector i
\* returned successfully and its output was merged.
C15_SequentialInOrder ==
  /\ Cardinality({c \in Callers : pc[c] = "detect"}) <= 1
  /\ \A i \in DOMAIN invoked :
       invoked[i] > 0 =>
         /\ i <= Len(p_detectors)
         /\ \A j \in 1..(i - 1) : invoked[j] > 0
         /\ Len(outs) >= i - 1
  /\ \A c \in Callers :
       pc[c] = "detect" =>
         /\ Len(outs) = idx - 1
         /\ res = Expected(outs)
         /\ invoked[idx] = 1
         /\ \A j \in DOMAIN invoked : j > idx => invoked[j] = 0

\* the second detector is in progress after the first one's output was
\* merged, while another caller waits inside Get
C15_Witness ==
  \E c, d \in Callers :
    /\ c # d
    /\ pc[c] = "detect" /\ idx = 2 /\ pc[d] = "lock"
    /\ outs = << ("a" :> 1) >> /\ res = ("a" :> 1)
    /\ invoked[1] = 1 /\ invoked[2] = 1

\* C16: while the run is in progress, every key of the accumulating resource
\* stays in it with the same value, whatever a later detector returns.
C16_OnlyGrows ==
  [][(\E c \in Callers : pc[c] \in {"loop", "detect"}) =>
       \A k \in DOMAIN res : k \in DOMAIN res' /\ res'[k] = res[k]]_vars

\* the second detector returned another value for "a" and a new key "b": "a"
\* kept the first detector's value and "b" was added
C16_Witness ==
  /\ \E c \in Callers : pc[c] = "loop"
  /\ idx = 3
  /\ outs = << ("a" :> 1), ("a" :> 2 @@ "b" :> 2) >>
  /\ res = ("a" :> 1 @@ "b" :> 2)

\* C17: the run's context is derived from the context of the caller that
\* performs the run and from the timeout, and from no other caller's context;
\* cancelling the context of a caller that does not perform the run changes
\* neither the run's context nor the result, and no caller returns from Get
\* before the run has settled.
C17_OnlyRunnerContext ==
  /\ [](\A c \in Callers :
          /\ pc[c] \in {"loop", "detect"} =>
               /\ runCtx.armed
               /\ runCtx.parentDone = cancelled[c]
               /\ runCtx.err = Canceled => cancelled[c]
          /\ pc[c] \in {"return", "done"} => onceDone)
  /\ [](outcome.err = Canceled => cancelled[runner])
  /\ [][\A c \in Callers :
          (cancelled'[c] /\ ~cancelled[c] /\ onceM # c) =>
            /\ runCtx' = runCtx
            /\ detectedResource' = detectedResource
            /\ outcome' = outcome
            /\ pc' = pc]_vars

\* a caller whose context was cancelled waits for the run, whose own context
\* is not done, and the run is inside a Detect call
C17_Witness ==
  \E c, d \in Callers :
    /\ c # d
    /\ pc[c] = "detect" /\ onceM = c /\ ~cancelled[c]
    /\ runCtx.err = NoErr /\ ~runCtx.parentDone
    /\ pc[d] = "lock" /\ cancelled[d] /\ ~onceDone

\* C18: once a Detect call has panicked and the run has unwound, the done
\* flag is set, no detector is invoked again, detectResource is not started
\* again, and every Get that returns hands back a nil error and no resource.
C18_PanicConsumesOnce ==
  outcome.kind = "panic" =>
    /\ runs = 1
    /\ \A i \in DOMAIN invoked : invoked[i] = IF i <= outcome.at THEN 1 ELSE 0
    /\ detectedResource = ZeroResult
    /\ pc[runner] \in {"unwindPanic", "panicked"}
    /\ pc[runner] = "panicked" => onceDone
    /\ \A c \in Callers :
         /\ c # runner => pc[c] \in {"idle", "lock", "return", "done"}
         /\ pc[c] \in {"return", "done"} => onceDone
         /\ pc[c] = "done" => ret[c] = [hasRes |-> FALSE, resource |-> NewResource,
                                        err |-> NoErr]

\* the first detector panicked, and a Get called after that has returned a
\* nil error and no resource without any further Detect call
C18_Witness ==
  \E c \in Callers :
    /\ outcome.kind = "panic" /\ outcome.at = 1
    /\ pc[runner] = "panicked"
    /\ c # runner /\ entered[c] = "settled" /\ pc[c] = "done"
    /\ ret[c].err = NoErr /\ ~ret[c].hasRes
    /\ invoked[1] = 1 /\ runs = 1

\* C19: over an empty detector list no detector is ever invoked, the run can
\* only end in success, the stored result is the empty resource with a nil
\* error from then on, and every Get returns exactly that, whether or not the
\* caller's context is cancelled and whether or not the timeout has expired.
C19_EmptyListSucceeds ==
  Len(p_detectors) = 0 =>
    /\ \A i \in DOMAIN invoked : invoked[i] = 0
    /\ outcome.kind \in {"none", "ok"}
    /\ onceDone => detectedResource = [alloc |-> TRUE, hasRes |-> TRUE,
                                       resource |-> NewResource, err |-> NoErr]
    /\ \A c \in Callers :
         pc[c] = "done" => ret[c] = [hasRes |-> TRUE, resource |-> NewResource,
                                     err |-> NoErr]

\* the caller with a cancelled context ran over the empty list and got the
\* empty resource, and so did the other caller
C19_Witness ==
  /\ Len(p_detectors) = 0
  /\ runner # 0 /\ cancelled[runner]
  /\ \A c \in Callers : pc[c] = "done" /\ ret[c].hasRes /\ ret[c].err = NoErr
                        /\ DOMAIN ret[c].resource = {}

====
